---- MODULE Spec2Model ----
(***************************************************************************)
(* Download service: HTTP handler (producer), Redis dispatch queue and      *)
(* lease lock, Postgres job records, and the pool of download workers.      *)
(*                                                                          *)
(* Time is discrete: one Tick is half the lease TTL (30 s), the period of   *)
(* the renewal ticker.                                                      *)
(* Bytes are counted in units of half a download buffer (64 KB).            *)
(***************************************************************************)
EXTENDS Integers, Sequences, FiniteSets, TLC

VARIABLES
    queue,      \* Redis list "download_requests": index 1 is the left end
    lease,      \* Redis keys fmt.Sprint(id) -> remaining time to live, 0 = no key
    downloads,  \* Postgres table downloads: id -> row
    serial,     \* last value handed out by the downloads.id sequence
    file,       \* local disk: file name -> content
    worker,     \* per worker: position in run/processDownloadRequest and its locals
    stale,      \* ids for which a renewal goroutine of a finished attempt still holds a tick
    ctxDone,    \* the context handed to consumer.Start has been cancelled
    crashed,    \* the process died of an unrecovered panic
    faults,     \* failures (backend, disk, transport) the environment may still inject
    holders,    \* history: the workers whose AcquireLock returned true for the present key
    enqLog,     \* history: ids in the order they were pushed
    deqLog      \* history: ids in the order they were popped

vars == <<queue, lease, downloads, serial, file, worker, stale, ctxDone, crashed,
          faults, holders, enqLog, deqLog>>

-----------------------------------------------------------------------------
(* Bounds of the model *)

NumWorkers == 2
MaxPush == 2
MaxSerial == 2
SrcLen == 2
MaxFaults == 1
StreamLen == 18

(* Program constants *)

LinkProcessingExpTime == 2
DownloadBuffSizeBytes == 2
FlushThresholdBytes == 8 * DownloadBuffSizeBytes
StatusOK == 200
StatusPartialContent == 206
UnknownID == 12

TickerPeriod == LinkProcessingExpTime \div 2

Workers == 1..NumWorkers
Users == {1}
Links == {"a"}
PushIds == (1..MaxSerial) \cup {UnknownID}

\* The remote resource behind every link: SrcLen distinct bytes.
Source == [i \in 1..SrcLen |-> i]

Min(a, b) == IF a < b THEN a ELSE b

-----------------------------------------------------------------------------
(* Conversions *)

\* fmt.Sprint(downloadID) / the decimal string Redis stores for an int64
RECURSIVE Sprint(_)
Sprint(n) == IF n < 10 THEN <<n>> ELSE Append(Sprint(n \div 10), n % 10)

\* strconv.ParseInt(s, 10, 64), its error dropped
RECURSIVE ParseInt(_)
ParseInt(s) ==
    IF s = <<>> THEN 0 ELSE 10 * ParseInt(SubSeq(s, 1, Len(s) - 1)) + s[Len(s)]

Keys == {Sprint(i) : i \in PushIds}

\* generateFileName: a hash of the link followed by the user id
generateFileName(userID, link) == <<link, userID>>

-----------------------------------------------------------------------------
(* Redis commands as the repository uses them *)

LPush(q, v) == <<v>> \o q

\* RPOP that reads the tail without removing it.
RPopKeep(q) == [val |-> q[Len(q)], rest |-> q]

\* A pop from the end the producer pushes to (LPOP after LPUSH).
RPopLeft(q) == [val |-> q[1], rest |-> Tail(q)]

\* A pop that puts the element back at the left end (RPOPLPUSH on one list).
RPopRotate(q) == [val |-> q[Len(q)], rest |-> <<q[Len(q)]>> \o SubSeq(q, 1, Len(q) - 1)]

RPop(q) == [val |-> q[Len(q)], rest |-> SubSeq(q, 1, Len(q) - 1)]

\* SET without NX: the key is written whether or not it exists.
SetAlways(l, key, exp) == [won |-> TRUE, lease |-> [l EXCEPT ![key] = exp]]

\* SETNX that resets the expiry of a key it did not create.
SetNXTouch(l, key, exp) == [won |-> l[key] = 0, lease |-> [l EXCEPT ![key] = exp]]

SetNX(l, key, exp) ==
    [won |-> l[key] = 0,
     lease |-> IF l[key] = 0 THEN [l EXCEPT ![key] = exp] ELSE l]

\* A renewal that writes the key with its expiry whether or not it exists.
ExpireSet(l, key, exp) == [ok |-> TRUE, lease |-> [l EXCEPT ![key] = exp]]

Expire(l, key, exp) ==
    [ok |-> l[key] > 0,
     lease |-> IF l[key] > 0 THEN [l EXCEPT ![key] = exp] ELSE l]

\* A release that leaves the key in place.
DelNone(l, key) == l

Del(l, key) == [l EXCEPT ![key] = 0]

\* A call on a backend (Redis, Postgres) returns an error when the context it
\* is given is already cancelled, and may return one at any other time (as long
\* as the environment has a failure left to inject).
Outcomes(done) ==
    IF done THEN {FALSE} ELSE IF faults > 0 THEN {TRUE, FALSE} ELSE {TRUE}

\* Disk and network calls take no context.
IOOutcomes == IF faults > 0 THEN {TRUE, FALSE} ELSE {TRUE}

\* The failure budget after a call made with context state `done` returned ok.
Spend(done, ok) == faults' = IF ok \/ done THEN faults ELSE faults - 1

-----------------------------------------------------------------------------
(* Initial state *)

IdleWorker ==
    [pc |-> "poll", id |-> 0, offset |-> 0, body |-> <<>>, bytesRead |-> 0,
     err |-> "", ticker |-> 0, tickC |-> FALSE,
     acq |-> "none", fetched |-> FALSE, wrote |-> FALSE, mutated |-> FALSE,
     status |-> 0, result |-> "none", evicted |-> FALSE,
     renewed |-> "none"]

InitWith(budget) ==
    /\ queue = <<>>
    /\ lease = [k \in Keys |-> 0]
    /\ downloads = <<>>
    /\ serial = 0
    /\ file = <<>>
    /\ worker = [w \in Workers |-> IdleWorker]
    /\ stale = {}
    /\ ctxDone = FALSE
    /\ crashed = FALSE
    /\ faults = budget
    /\ holders = [k \in Keys |-> {}]
    /\ enqLog = <<>>
    /\ deqLog = <<>>

\* The environment may inject up to MaxFaults failures.
Init == InitWith(MaxFaults)

\* The environment injects no failure (but may cancel the context).
InitCancel == InitWith(0)

-----------------------------------------------------------------------------
(* Producers *)

NewRow(userID, link) ==
    [user_id |-> userID, link |-> link, file_name |-> generateFileName(userID, link),
     completed |-> FALSE, error |-> ""]

\* A table without the UNIQUE (user_id, link) constraint.
DuplicateNever(userID, link) == FALSE

Duplicate(userID, link) ==
    \E i \in DOMAIN downloads :
        downloads[i].user_id = userID /\ downloads[i].link = link

\* handler.CreateDownloadRequest: INSERT the row, then push its id.
\* A row violating UNIQUE (user_id, link) is refused after the id sequence has
\* advanced; a failed push is logged and answered with 500.
CreateDownloadRequest(userID, link) ==
    /\ ~crashed
    /\ serial < MaxSerial
    /\ Len(enqLog) < MaxPush
    /\ \E dbOK \in Outcomes(FALSE), pushOK \in Outcomes(FALSE) :
        IF ~dbOK
        THEN /\ pushOK
             /\ Spend(FALSE, dbOK)
             /\ UNCHANGED <<serial, downloads, queue, enqLog>>
        ELSE IF Duplicate(userID, link)
        THEN /\ pushOK
             /\ serial' = serial + 1
             /\ UNCHANGED <<downloads, queue, enqLog, faults>>
        ELSE /\ serial' = serial + 1
             /\ downloads' = downloads @@ ((serial + 1) :> NewRow(userID, link))
             /\ Spend(FALSE, pushOK)
             /\ IF pushOK
                THEN /\ queue' = LPush(queue, Sprint(serial + 1))
                     /\ enqLog' = Append(enqLog, serial + 1)
                ELSE UNCHANGED <<queue, enqLog>>
    /\ UNCHANGED <<lease, file, worker, stale, ctxDone, crashed, holders, deqLog>>

\* repository.PushDownloadRequest called by a producer for an id of its choice
\* (an id pushed again, or an id that has no row).
PushDownloadRequest(id) ==
    /\ ~crashed
    /\ id \in (DOMAIN downloads) \cup {UnknownID}
    /\ Len(enqLog) < MaxPush
    /\ \E ok \in Outcomes(FALSE) :
        /\ Spend(FALSE, ok)
        /\ IF ok
           THEN /\ queue' = LPush(queue, Sprint(id))
                /\ enqLog' = Append(enqLog, id)
           ELSE UNCHANGED <<queue, enqLog>>
    /\ UNCHANGED <<lease, downloads, serial, file, worker, stale, ctxDone, crashed,
                   holders, deqLog>>

-----------------------------------------------------------------------------
(* worker.run *)

\* w moves on to r; what its last ExtendLock returned is dropped.
Set(w, r) == worker' = [worker EXCEPT ![w] = [r EXCEPT !.renewed = "none"]]

\* A loop without the ctx.Done() case.
WorkerStopNever(w) == FALSE

\* run, case <-ctx.Done(): the loop exits.
WorkerStop(w) ==
    /\ ~crashed
    /\ worker[w].pc = "poll"
    /\ ctxDone
    /\ Set(w, [IdleWorker EXCEPT !.pc = "stopped"])
    /\ UNCHANGED <<queue, lease, downloads, serial, file, stale, ctxDone, crashed,
                   faults, holders, enqLog, deqLog>>

\* run, default: PopDownloadRequest. An empty list is NoMoreDownloadRequestErr
\* (the worker sleeps), another error is logged, an id starts
\* processDownloadRequest.
PopDownloadRequest(w) ==
    /\ ~crashed
    /\ worker[w].pc = "poll"
    /\ ~ctxDone
    /\ \E ok \in Outcomes(ctxDone) :
        /\ Spend(ctxDone, ok)
        /\ IF ~ok
           THEN /\ Set(w, IdleWorker)
                /\ UNCHANGED <<queue, deqLog>>
           ELSE IF queue = <<>>
           THEN /\ Set(w, [IdleWorker EXCEPT !.pc = "sleep"])
                /\ UNCHANGED <<queue, deqLog>>
           ELSE /\ queue' = RPop(queue).rest
                /\ deqLog' = Append(deqLog, ParseInt(RPop(queue).val))
                /\ Set(w, [IdleWorker EXCEPT !.pc = "get",
                                             !.id = ParseInt(RPop(queue).val),
                                             !.result = "running"])
    /\ UNCHANGED <<lease, downloads, serial, file, stale, ctxDone, crashed,
                   holders, enqLog>>

\* time.Sleep(SleepDurationInCaseOFNoDownloadRequest); continue
Sleep(w) ==
    /\ ~crashed
    /\ worker[w].pc = "sleep"
    /\ Set(w, [worker[w] EXCEPT !.pc = "poll"])
    /\ UNCHANGED <<queue, lease, downloads, serial, file, stale, ctxDone, crashed,
                   faults, holders, enqLog, deqLog>>

-----------------------------------------------------------------------------
(* worker.processDownloadRequest *)

Key(w) == Sprint(worker[w].id)

FileName(w) == downloads[worker[w].id].file_name

BadStatuses == {404}

\* GetDownloadRequest: no row, or a failed query, ends the attempt with an error.
GetDownloadRequest(w) ==
    /\ ~crashed
    /\ worker[w].pc = "get"
    /\ \E ok \in Outcomes(ctxDone) :
        /\ Spend(ctxDone, ok)
        /\ IF ok /\ worker[w].id \in DOMAIN downloads
           THEN Set(w, [worker[w] EXCEPT !.pc = "acquire"])
           ELSE Set(w, [worker[w] EXCEPT !.pc = "poll", !.result = "failed",
                                         !.err = "get"])
    /\ UNCHANGED <<queue, lease, downloads, serial, file, stale, ctxDone, crashed,
                   holders, enqLog, deqLog>>

\* An attempt that ignores the answer of AcquireLock.
AfterAcquireAlways(acquired) == "open"

\* Where processDownloadRequest goes once AcquireLock has answered `acquired`.
AfterAcquire(acquired) == IF acquired THEN "open" ELSE "poll"

\* AcquireLock(ctx, downloadID, LinkProcessingExpTime): SETNX with expiry.
AcquireLock(w) ==
    /\ ~crashed
    /\ worker[w].pc = "acquire"
    /\ \E ok \in Outcomes(ctxDone) :
        /\ Spend(ctxDone, ok)
        /\ IF ~ok
           THEN /\ Set(w, [worker[w] EXCEPT !.pc = "poll", !.result = "failed",
                                            !.err = "acquire", !.acq = "error"])
                /\ UNCHANGED <<lease, holders>>
           ELSE LET r == SetNX(lease, Key(w), LinkProcessingExpTime) IN
                /\ lease' = r.lease
                /\ holders' = IF r.won THEN [holders EXCEPT ![Key(w)] = @ \cup {w}]
                                     ELSE holders
                /\ Set(w, [worker[w] EXCEPT
                            !.pc = AfterAcquire(r.won),
                            !.acq = IF r.won THEN "won" ELSE "contended",
                            !.err = IF AfterAcquire(r.won) = "poll" THEN "locked" ELSE "",
                            !.result = IF AfterAcquire(r.won) = "poll"
                                       THEN "failed" ELSE "running"])
    /\ UNCHANGED <<queue, downloads, serial, file, stale, ctxDone, crashed,
                   enqLog, deqLog>>

\* openFile: O_APPEND|O_CREATE|O_RDWR, offset = the file's size.
OpenFile(w) ==
    /\ ~crashed
    /\ worker[w].pc = "open"
    /\ \E ok \in IOOutcomes :
        /\ Spend(FALSE, ok)
        /\ IF ok
           THEN LET name == FileName(w)
                    f == IF name \in DOMAIN file THEN file ELSE file @@ (name :> <<>>)
                IN /\ file' = f
                   /\ Set(w, [worker[w] EXCEPT !.pc = "request",
                                               !.offset = Len(f[name])])
           ELSE /\ UNCHANGED file
                /\ Set(w, [worker[w] EXCEPT !.pc = "markerr", !.err = "storage"])
    /\ UNCHANGED <<queue, lease, downloads, serial, stale, ctxDone, crashed,
                   holders, enqLog, deqLog>>

\* A worker that streams the body whatever the status.
StatusAcceptedAny(code) == TRUE

\* The statuses processDownloadRequest goes on to stream.
StatusAccepted(code) == code = StatusPartialContent \/ code = StatusOK

\* What the server sends for "Range: bytes=offset-": 206 with the bytes from
\* offset when it honours the range, 200 with the whole resource when it does
\* not, or an error status.
Responses(offset) ==
    {[status |-> StatusPartialContent, body |-> SubSeq(Source, o + 1, SrcLen)] :
        o \in {offset} \cap (0..(SrcLen - 1))}
    \cup {[status |-> StatusOK, body |-> Source]}
    \cup {[status |-> c, body |-> <<>>] : c \in BadStatuses}

\* http.NewRequest, the Range header, client.Do and the status check; on an
\* accepted status the ticker and the renewal goroutine are started.
DoRequest(w) ==
    /\ ~crashed
    /\ worker[w].pc = "request"
    /\ \/ /\ faults > 0
          /\ faults' = faults - 1
          /\ \/ Set(w, [worker[w] EXCEPT !.pc = "markerr", !.err = "network"])
             \/ Set(w, [worker[w] EXCEPT !.pc = "markerr_do", !.err = "network",
                                         !.fetched = TRUE])
       \/ /\ UNCHANGED faults
          /\ \E resp \in Responses(worker[w].offset) :
               IF StatusAccepted(resp.status)
               THEN Set(w, [worker[w] EXCEPT !.pc = "stream", !.fetched = TRUE,
                                !.status = resp.status, !.body = resp.body,
                                !.bytesRead = 0, !.ticker = TickerPeriod])
               ELSE Set(w, [worker[w] EXCEPT !.pc = "markerr", !.fetched = TRUE,
                                !.status = resp.status, !.err = "status"])
    /\ UNCHANGED <<queue, lease, downloads, serial, file, stale, ctxDone, crashed,
                   holders, enqLog, deqLog>>

\* UPDATE downloads SET error = $1 WHERE id = $2
SetError(d, id, msg, ok) ==
    IF ok /\ id \in DOMAIN d THEN [d EXCEPT ![id].error = msg] ELSE d

\* UPDATE downloads SET completed = TRUE WHERE id = $1
SetCompleted(d, id, ok) ==
    IF ok /\ id \in DOMAIN d THEN [d EXCEPT ![id].completed = TRUE] ELSE d

\* client.Do failed: MarkError, the log line, then `defer resp.Body.Close()`.
\* resp is nil (a nil dereference, the goroutine panics) unless the failure is
\* a refused redirect, which leaves a response with a 3xx status.
MarkErrorDo(w) ==
    /\ ~crashed
    /\ worker[w].pc = "markerr_do"
    /\ \E ok \in Outcomes(ctxDone) :
        /\ Spend(ctxDone, ok)
        /\ downloads' = SetError(downloads, worker[w].id, worker[w].err, ok)
        /\ \/ Set(w, [worker[w] EXCEPT !.pc = "panic", !.mutated = TRUE])
           \/ Set(w, [worker[w] EXCEPT !.pc = "markerr", !.mutated = TRUE,
                                       !.status = 302, !.err = "status"])
    /\ UNCHANGED <<queue, lease, serial, file, stale, ctxDone, crashed,
                   holders, enqLog, deqLog>>

\* MarkError on a failing path, then return err.
MarkError(w) ==
    /\ ~crashed
    /\ worker[w].pc = "markerr"
    /\ \E ok \in Outcomes(ctxDone) :
        /\ Spend(ctxDone, ok)
        /\ downloads' = SetError(downloads, worker[w].id, worker[w].err, ok)
        /\ Set(w, [worker[w] EXCEPT !.pc = "return", !.mutated = TRUE])
    /\ UNCHANGED <<queue, lease, serial, file, stale, ctxDone, crashed,
                   holders, enqLog, deqLog>>

\* What one resp.Body.Read(buffer) may return besides an error: n > 0 bytes
\* with a nil error, or io.EOF, which a reader may deliver together with the
\* last n > 0 bytes.
Reads(body) ==
    {[n |-> k, eof |-> FALSE] : k \in 1..Min(DownloadBuffSizeBytes, Len(body))}
    \cup {[n |-> k, eof |-> TRUE] :
            k \in {Len(body)} \cap (0..DownloadBuffSizeBytes)}

\* The bytes the stream loop appends to the file for one Read.
Written(body, r) == IF r.eof THEN <<>> ELSE SubSeq(body, 1, r.n)

\* A comparison that lets the counter sit on the threshold.
FlushDueLate(total) == total > FlushThresholdBytes

\* if bytesRead >= FlushThresholdBytes: the file is synced.
FlushDue(total) == total >= FlushThresholdBytes

\* One iteration of the stream loop: the cancellation check, Read, and then
\* either the EOF branch (Sync) or Write with a Sync at the flush threshold.
Stream(w) ==
    /\ ~crashed
    /\ worker[w].pc = "stream"
    /\ IF ctxDone
       THEN /\ Set(w, [worker[w] EXCEPT !.pc = "markerr", !.err = "canceled"])
            /\ UNCHANGED <<file, faults>>
       ELSE \/ /\ faults > 0
               /\ faults' = faults - 1
               /\ Set(w, [worker[w] EXCEPT !.pc = "markerr", !.err = "network"])
               /\ UNCHANGED file
            \/ \E r \in Reads(worker[w].body) :
                LET rest == SubSeq(worker[w].body, r.n + 1, Len(worker[w].body))
                    data == Written(worker[w].body, r)
                    total == worker[w].bytesRead + Len(data)
                IN IF r.eof
                   THEN /\ UNCHANGED file
                        /\ \E syncOK \in IOOutcomes :
                            /\ Spend(FALSE, syncOK)
                            /\ IF syncOK
                               THEN Set(w, [worker[w] EXCEPT !.pc = "complete",
                                                !.body = rest, !.bytesRead = 0])
                               ELSE Set(w, [worker[w] EXCEPT !.pc = "markerr",
                                                !.body = rest, !.err = "storage"])
                   ELSE \E writeOK \in IOOutcomes :
                        IF ~writeOK
                        THEN /\ UNCHANGED file
                             /\ Spend(FALSE, writeOK)
                             /\ Set(w, [worker[w] EXCEPT !.pc = "markerr",
                                            !.body = rest, !.err = "storage"])
                        ELSE /\ file' = [file EXCEPT ![FileName(w)] = @ \o data]
                             /\ IF ~FlushDue(total)
                                THEN /\ UNCHANGED faults
                                     /\ Set(w, [worker[w] EXCEPT !.body = rest,
                                                    !.wrote = TRUE, !.bytesRead = total])
                                ELSE \E syncOK \in IOOutcomes :
                                     /\ Spend(FALSE, syncOK)
                                     /\ IF syncOK
                                        THEN Set(w, [worker[w] EXCEPT !.body = rest,
                                                        !.wrote = TRUE, !.bytesRead = 0])
                                        ELSE Set(w, [worker[w] EXCEPT !.pc = "markerr",
                                                        !.body = rest, !.wrote = TRUE,
                                                        !.bytesRead = total,
                                                        !.err = "storage"])
    /\ UNCHANGED <<queue, lease, downloads, serial, stale, ctxDone, crashed,
                   holders, enqLog, deqLog>>

\* EOF branch after the last Sync: CompleteDownloadRequest, and MarkError if
\* that fails.
Complete(w) ==
    /\ ~crashed
    /\ worker[w].pc = "complete"
    /\ \E ok \in Outcomes(ctxDone) :
        /\ Spend(ctxDone, ok)
        /\ downloads' = SetCompleted(downloads, worker[w].id, ok)
        /\ IF ok
           THEN Set(w, [worker[w] EXCEPT !.pc = "return", !.mutated = TRUE])
           ELSE Set(w, [worker[w] EXCEPT !.pc = "markerr", !.mutated = TRUE,
                                         !.err = "store"])
    /\ UNCHANGED <<queue, lease, serial, file, stale, ctxDone, crashed,
                   holders, enqLog, deqLog>>

\* The positions of processDownloadRequest after a successful AcquireLock.
AttemptPcs == {"open", "request", "markerr_do", "markerr", "stream", "complete",
               "return", "panic"}

\* w is between a successful AcquireLock and the deferred ReleaseLock.
Processing(w) == worker[w].acq = "won" /\ worker[w].pc \in AttemptPcs

\* ReleaseLock: DEL of the key, whoever set it; its error is dropped.
ReleaseLock(l, key, ok) == IF ok THEN Del(l, key) ELSE l

Released(h, key, ok) == IF ok THEN [h EXCEPT ![key] = {}] ELSE h

\* History: the workers whose lease w's DEL has just removed while they were
\* still inside their attempt on the same id.
Evict(w, ok, r) ==
    [v \in Workers |->
        IF v = w THEN [r EXCEPT !.renewed = "none"]
        ELSE IF ok /\ Processing(v) /\ worker[v].id = worker[w].id
                   /\ v \in holders[Key(w)]
        THEN [worker[v] EXCEPT !.evicted = TRUE]
        ELSE worker[v]]

\* processDownloadRequest returns: the deferred ticker.Stop, file.Close and
\* ReleaseLock run. A tick already in the ticker's channel stays with the
\* renewal goroutine, which outlives the attempt.
Return(w) ==
    /\ ~crashed
    /\ worker[w].pc = "return"
    /\ \E ok \in Outcomes(ctxDone) :
        /\ Spend(ctxDone, ok)
        /\ lease' = ReleaseLock(lease, Key(w), ok)
        /\ holders' = Released(holders, Key(w), ok)
        /\ worker' = Evict(w, ok,
                [worker[w] EXCEPT !.pc = "poll", !.ticker = 0, !.tickC = FALSE,
                    !.body = <<>>, !.bytesRead = 0,
                    !.result = IF worker[w].err = "" THEN "ok" ELSE "failed"])
    /\ stale' = IF worker[w].tickC THEN stale \cup {worker[w].id} ELSE stale
    /\ UNCHANGED <<queue, downloads, serial, file, ctxDone, crashed, enqLog, deqLog>>

\* The nil dereference at `defer resp.Body.Close()`: the deferred calls run
\* (file.Close, ReleaseLock) and, nothing recovering the panic, the process dies
\* with every goroutine.
Panic(w) ==
    /\ ~crashed
    /\ worker[w].pc = "panic"
    /\ \E ok \in Outcomes(ctxDone) :
        /\ Spend(ctxDone, ok)
        /\ lease' = ReleaseLock(lease, Key(w), ok)
        /\ holders' = Released(holders, Key(w), ok)
        /\ worker' = Evict(w, ok, [worker[w] EXCEPT !.pc = "dead", !.result = "panic"])
    /\ crashed' = TRUE
    /\ stale' = {}
    /\ UNCHANGED <<queue, downloads, serial, file, ctxDone, enqLog, deqLog>>

-----------------------------------------------------------------------------
(* Lease renewal, time, cancellation *)

\* ExtendLock: EXPIRE of the key, whoever set it.
ExtendLock(l, key, ok) == IF ok THEN Expire(l, key, LinkProcessingExpTime).lease ELSE l

\* What ExtendLock returns (the renewal goroutine drops it).
Extended(l, key, ok) ==
    IF ~ok THEN "error"
    ELSE IF Expire(l, key, LinkProcessingExpTime).ok THEN "extended" ELSE "absent"

\* The renewal goroutine of the running attempt receives a tick.
Renew(w) ==
    /\ ~crashed
    /\ worker[w].tickC
    /\ \E ok \in Outcomes(ctxDone) :
        /\ Spend(ctxDone, ok)
        /\ lease' = ExtendLock(lease, Key(w), ok)
        /\ worker' = [worker EXCEPT ![w].tickC = FALSE,
                                    ![w].renewed = Extended(lease, Key(w), ok)]
    /\ UNCHANGED <<queue, downloads, serial, file, stale, ctxDone, crashed,
                   holders, enqLog, deqLog>>

\* The renewal goroutine of an attempt that has returned receives the tick
\* left in its channel.
StaleRenew(id) ==
    /\ ~crashed
    /\ id \in stale
    /\ \E ok \in Outcomes(ctxDone) :
        /\ Spend(ctxDone, ok)
        /\ lease' = ExtendLock(lease, Sprint(id), ok)
    /\ stale' = stale \ {id}
    /\ UNCHANGED <<queue, downloads, serial, file, worker, ctxDone, crashed,
                   holders, enqLog, deqLog>>

\* Half the lease TTL passes: every key's time to live goes down, a key at 0
\* is gone; a running ticker counts down and puts a tick in its channel every
\* TickerPeriod. A renewal goroutine handles its tick within the unit, and
\* opening the local file takes less than a unit.
Tick ==
    /\ crashed \/ (stale = {} /\ \A w \in Workers : ~worker[w].tickC)
    /\ \A w \in Workers : worker[w].pc # "open"
    /\ \/ \E k \in Keys : lease[k] > 0
       \/ ~crashed /\ \E w \in Workers : worker[w].ticker > 0
    /\ lease' = [k \in Keys |-> IF lease[k] > 0 THEN lease[k] - 1 ELSE 0]
    /\ holders' = [k \in Keys |-> IF lease[k] > 1 THEN holders[k] ELSE {}]
    /\ worker' = [w \in Workers |->
                    IF crashed \/ worker[w].ticker = 0 THEN worker[w]
                    ELSE IF worker[w].ticker = 1
                    THEN [worker[w] EXCEPT !.ticker = TickerPeriod, !.tickC = TRUE,
                                           !.renewed = "none"]
                    ELSE [worker[w] EXCEPT !.ticker = @ - 1, !.renewed = "none"]]
    /\ UNCHANGED <<queue, downloads, serial, file, stale, ctxDone, crashed, faults,
                   enqLog, deqLog>>

\* The context given to consumer.Start is cancelled.
Cancel ==
    /\ ~crashed
    /\ ~ctxDone
    /\ ctxDone' = TRUE
    /\ UNCHANGED <<queue, lease, downloads, serial, file, worker, stale, crashed,
                   faults, holders, enqLog, deqLog>>

-----------------------------------------------------------------------------

Producer ==
    \/ \E u \in Users, l \in Links : CreateDownloadRequest(u, l)
    \/ \E id \in PushIds : PushDownloadRequest(id)

\* The service with an environment that injects failures; the context is
\* context.Background(), as in main.
Next ==
    \/ Producer
    \/ \E w \in Workers :
        \/ PopDownloadRequest(w)
        \/ Sleep(w)
        \/ GetDownloadRequest(w)
        \/ AcquireLock(w)
        \/ OpenFile(w)
        \/ DoRequest(w)
        \/ MarkErrorDo(w)
        \/ MarkError(w)
        \/ Stream(w)
        \/ Complete(w)
        \/ Return(w)
        \/ Panic(w)
        \/ Renew(w)
    \/ \E id \in PushIds : StaleRenew(id)
    \/ Tick

Spec == Init /\ [][Next]_vars

\* The stream loop by itself, on response bodies long enough to reach the
\* flush threshold: worker 1 has popped job 1, acquired its lease, opened the
\* empty file and received 200 with a body of up to StreamLen units.
LongBody == [i \in 1..StreamLen |-> i]

InitStream ==
    /\ queue = <<>>
    /\ lease = [k \in Keys |-> IF k = Sprint(1) THEN LinkProcessingExpTime ELSE 0]
    /\ downloads = <<NewRow(1, "a")>>
    /\ serial = 1
    /\ file = (generateFileName(1, "a") :> <<>>)
    /\ \E n \in 0..StreamLen :
        worker = [w \in Workers |->
                    IF w = 1
                    THEN [IdleWorker EXCEPT !.pc = "stream", !.id = 1,
                            !.body = SubSeq(LongBody, 1, n), !.ticker = TickerPeriod,
                            !.acq = "won", !.fetched = TRUE, !.status = StatusOK,
                            !.result = "running"]
                    ELSE IdleWorker]
    /\ stale = {}
    /\ ctxDone = FALSE
    /\ crashed = FALSE
    /\ faults = MaxFaults
    /\ holders = [k \in Keys |-> IF k = Sprint(1) THEN {1} ELSE {}]
    /\ enqLog = <<1>>
    /\ deqLog = <<1>>

NextStream ==
    \E w \in Workers :
        \/ Stream(w)
        \/ MarkError(w)
        \/ Complete(w)
        \/ Return(w)

SpecStream == InitStream /\ [][NextStream]_vars

\* One step of worker w's goroutine under the background context.
WorkerStepBackground(w) ==
    \/ PopDownloadRequest(w)
    \/ Sleep(w)
    \/ GetDownloadRequest(w)
    \/ AcquireLock(w)
    \/ OpenFile(w)
    \/ DoRequest(w)
    \/ MarkErrorDo(w)
    \/ MarkError(w)
    \/ Stream(w)
    \/ Complete(w)
    \/ Return(w)
    \/ Panic(w)

\* Spec with every worker goroutine scheduled again and again. Nothing in the
\* program pushes on its own, so no push is required to happen.
SpecLive == Spec /\ \A w \in Workers : WF_vars(WorkerStepBackground(w))

\* The service with a context that may be cancelled, and no injected failure.
NextCancel ==
    \/ Producer
    \/ \E w \in Workers :
        \/ WorkerStop(w)
        \/ PopDownloadRequest(w)
        \/ Sleep(w)
        \/ GetDownloadRequest(w)
        \/ AcquireLock(w)
        \/ OpenFile(w)
        \/ DoRequest(w)
        \/ MarkError(w)
        \/ Stream(w)
        \/ Complete(w)
        \/ Return(w)
        \/ Renew(w)
    \/ \E id \in PushIds : StaleRenew(id)
    \/ Tick
    \/ Cancel

SpecCancel == InitCancel /\ [][NextCancel]_vars

\* One step of worker w's goroutine under a cancellable context.
WorkerStep(w) ==
    \/ WorkerStop(w)
    \/ PopDownloadRequest(w)
    \/ Sleep(w)
    \/ GetDownloadRequest(w)
    \/ AcquireLock(w)
    \/ OpenFile(w)
    \/ DoRequest(w)
    \/ MarkError(w)
    \/ Stream(w)
    \/ Complete(w)
    \/ Return(w)

\* SpecCancel with every worker goroutine scheduled again and again, and every
\* call it waits on (backend, disk, network) returning.
SpecCancelLive == SpecCancel /\ \A w \in Workers : WF_vars(WorkerStep(w))

-----------------------------------------------------------------------------
(* Properties *)

\* w's attempt is over and the worker is back in its loop.
Returned(w) == worker[w].pc = "poll" /\ worker[w].result \in {"ok", "failed"}

\* C1: at most one worker at a time is between a successful lease acquire and
\* its release for a given job id.
C1_OneProcessorPerJob ==
    \A w1, w2 \in Workers :
        (w1 # w2 /\ Processing(w1) /\ Processing(w2))
            => worker[w1].id # worker[w2].id

Count(log, id) == Cardinality({i \in DOMAIN log : log[i] = id})

\* Two attempts on the same id that both reached AcquireLock's answer and are over.
Raced(w1, w2) ==
    /\ w1 # w2
    /\ worker[w1].id = worker[w2].id
    /\ Returned(w1) /\ Returned(w2)
    /\ worker[w1].acq \in {"won", "contended"}
    /\ worker[w2].acq \in {"won", "contended"}

\* C2 as claimed: of two attempts on the same job id, in any interleaving,
\* exactly one performs the fetch and the other is a contended attempt that
\* mutates nothing.
C2_ExactlyOneFetches ==
    \A w1, w2 \in Workers :
        Raced(w1, w2) =>
            \/ worker[w1].fetched /\ worker[w2].acq = "contended"
            \/ worker[w2].fetched /\ worker[w1].acq = "contended"
            \/ ~worker[w1].fetched /\ ~worker[w2].fetched

\* C2 as amended: an attempt whose AcquireLock found the lease present ends at
\* once: it sends no request, writes no byte and calls neither
\* CompleteDownloadRequest nor MarkError; and while one attempt's lease is
\* present no other attempt on that id gets past AcquireLock.
C2_ContendedAttemptDoesNothing ==
    /\ \A w \in Workers :
        worker[w].acq = "contended" =>
            /\ Returned(w)
            /\ ~worker[w].fetched /\ ~worker[w].wrote /\ ~worker[w].mutated
    /\ \A w1, w2 \in Workers :
        (w1 # w2 /\ Processing(w1) /\ Processing(w2)
            /\ worker[w1].id = worker[w2].id)
            => ~(w1 \in holders[Key(w1)] /\ w2 \in holders[Key(w2)])

\* C2 witness: one attempt has sent its request while the other, on the same
\* id, came back from AcquireLock with a contended lease.
C2_Witness ==
    \E w1, w2 \in Workers :
        /\ w1 # w2
        /\ worker[w1].id = worker[w2].id
        /\ Processing(w1) /\ worker[w1].fetched
        /\ worker[w2].acq = "contended"

\* C3: for every id, AcquireLock returns true exactly once per life of the
\* lease: a key is present iff exactly one call has won it, and no other call
\* wins until release or expiry removes the key.
C3_OneWinnerPerLease ==
    \A k \in Keys :
        /\ lease[k] = 0 => holders[k] = {}
        /\ lease[k] > 0 => Cardinality(holders[k]) = 1

\* C3 witness: a second caller was refused while the first caller's lease was
\* present.
C3_Witness ==
    \E w1, w2 \in Workers :
        /\ w1 # w2
        /\ worker[w1].id \in PushIds
        /\ holders[Key(w1)] = {w1}
        /\ worker[w2].id = worker[w1].id
        /\ worker[w2].acq = "contended"
        /\ worker[w2].pc = "poll"

\* C4: after an attempt that acquired the lease has returned, no lease created
\* by it remains, whatever the outcome.
C4_LeaseReleasedOnReturn ==
    \A w \in Workers :
        (Returned(w) /\ worker[w].acq = "won") => w \notin holders[Key(w)]

\* C5: no failure of an attempt stops a worker.
C5_WorkerSurvivesFailure ==
    \A w \in Workers : worker[w].err # "" => (worker[w].pc # "dead" /\ ~crashed)

\* C6: a successful attempt that resumed from a prefix of L > 0 bytes left by
\* an earlier attempt that failed and recorded its error (no other worker has
\* touched the job since) leaves the
\* file equal to the source: nothing duplicated, nothing missing.
C6_ResumedFileEqualsSource ==
    \A w \in Workers :
        (/\ Returned(w) /\ worker[w].result = "ok" /\ worker[w].offset > 0
         /\ worker[w].id \in DOMAIN downloads
         /\ downloads[worker[w].id].error # ""
         /\ \A v \in Workers \ {w} : worker[v].id # worker[w].id)
            => file[FileName(w)] = Source

\* C7: a first attempt on a new job whose source answers 200 or 206, with no
\* failure anywhere, leaves the row completed with an empty error, the file as
\* long as the source, and no lease.
C7_FirstAttemptCompletes ==
    \A w \in Workers :
        (/\ Returned(w)
         /\ Count(deqLog, worker[w].id) = 1
         /\ faults = MaxFaults
         /\ StatusAccepted(worker[w].status))
            => /\ downloads[worker[w].id].completed
               /\ downloads[worker[w].id].error = ""
               /\ Len(file[FileName(w)]) = SrcLen
               /\ lease[Key(w)] = 0

\* The single attempt on w's id is over, it met an error status, and the
\* environment injected no failure.
OnlyAttemptMetBadStatus(w) ==
    /\ Returned(w)
    /\ Count(deqLog, worker[w].id) = 1
    /\ faults = MaxFaults
    /\ worker[w].status \in BadStatuses

\* C8: after one attempt on a job whose source answers with a status other
\* than 200 and 206, the row is not completed, its error is the status error,
\* nothing was written to the file, and no lease remains.
C8_BadStatusFailsAttempt ==
    \A w \in Workers :
        OnlyAttemptMetBadStatus(w)
            => /\ ~downloads[worker[w].id].completed
               /\ downloads[worker[w].id].error = "status"
               /\ ~worker[w].wrote
               /\ file[FileName(w)] = <<>>
               /\ lease[Key(w)] = 0

\* C8 witness: an attempt that met status 404 has returned.
C8_Witness == \E w \in Workers : OnlyAttemptMetBadStatus(w)

\* C9: an id has been returned by PopDownloadRequest at most as often as it
\* was pushed.
C9_NoDuplicateDispatch ==
    \A id \in PushIds : Count(deqLog, id) <= Count(enqLog, id)

\* C9 witness: two workers each popped one of two entries of the same id.
C9_Witness ==
    /\ Len(deqLog) = 2
    /\ deqLog[1] = deqLog[2]
    /\ \A w \in Workers : worker[w].id = deqLog[1]

IsPrefix(a, b) == Len(a) <= Len(b) /\ SubSeq(b, 1, Len(a)) = a

\* The ids pushed and not yet popped, oldest first.
Pending == [i \in 1..Len(queue) |-> ParseInt(queue[Len(queue) + 1 - i])]

\* A step in which worker w's PopDownloadRequest returned without error.
Popped(w) == worker[w].pc = "poll" /\ worker'[w].pc \in {"sleep", "get"}

\* C10: ids are popped in the order they were pushed, and a pop on an empty
\* queue reports NoMoreDownloadRequestErr (the worker sleeps) and leaves the
\* queue as it is.
C10_Fifo ==
    /\ [](IsPrefix(deqLog, enqLog) /\ deqLog \o Pending = enqLog)
    /\ [][\A w \in Workers :
            Popped(w) =>
                IF queue = <<>>
                THEN worker'[w].pc = "sleep" /\ queue' = queue /\ deqLog' = deqLog
                ELSE worker'[w].pc = "get" /\ worker'[w].id = enqLog[Len(deqLog) + 1]
         ]_vars

\* C10 witness: two different ids were popped, and a worker found the queue
\* empty afterwards.
C10_Witness ==
    /\ Len(deqLog) = 2
    /\ deqLog[1] # deqLog[2]
    /\ \E w \in Workers : worker[w].pc = "sleep"

\* C11: the release of an attempt whose lease had expired removes the lease
\* another worker acquired for the same id since, while that worker is still
\* inside its attempt: after the step the key is absent, the other worker is
\* still processing, and a further SETNX on the key would win.
C11_ReleaseEvictsOtherHolder ==
    [][\A a, b \in Workers :
        (/\ a # b
         /\ worker[a].pc = "return" /\ worker'[a].pc = "poll"
         /\ worker[a].acq = "won" /\ worker[b].id = worker[a].id
         /\ Processing(b) /\ b \in holders[Key(b)] /\ lease[Key(b)] > 0
         /\ faults' = faults)
            => /\ lease'[Key(b)] = 0
               /\ worker'[b].pc = worker[b].pc /\ worker'[b].acq = "won"
               /\ worker'[b].evicted
               /\ SetNX(lease', Key(b), LinkProcessingExpTime).won]_vars

\* C11 witness: a worker is inside its attempt, its lease removed by the
\* release of another worker's attempt on the same id.
C11_Witness ==
    \E a, b \in Workers :
        /\ a # b /\ Returned(a) /\ worker[a].acq = "won"
        /\ worker[a].id = worker[b].id
        /\ Processing(b) /\ worker[b].evicted /\ lease[Key(b)] = 0

\* C12: an ExtendLock that finds the key resets its time to live to the given
\* expiry and returns true, whoever set the key; one that finds no key returns
\* false and leaves Redis as it was. A key only ever appears by an AcquireLock
\* that won.
C12_ExtendNeverCreates ==
    /\ [][\A w \in Workers :
            (/\ worker[w].tickC /\ ~worker'[w].tickC
             /\ worker'[w].pc = worker[w].pc
             /\ faults' = faults /\ ~crashed')
                => IF lease[Key(w)] > 0
                   THEN /\ lease' = [lease EXCEPT ![Key(w)] = LinkProcessingExpTime]
                        /\ worker'[w].renewed = "extended"
                   ELSE /\ lease' = lease
                        /\ worker'[w].renewed = "absent"]_vars
    /\ [][\A id \in PushIds :
            (id \in stale /\ id \notin stale' /\ faults' = faults /\ ~crashed')
                => IF lease[Sprint(id)] > 0
                   THEN lease' = [lease EXCEPT ![Sprint(id)] = LinkProcessingExpTime]
                   ELSE lease' = lease]_vars
    /\ [][\A k \in Keys :
            (lease[k] = 0 /\ lease'[k] > 0)
                => \E w \in Workers :
                    /\ worker[w].pc = "acquire" /\ Key(w) = k
                    /\ worker'[w].acq = "won"]_vars

\* C12 witness: a renewal issued after the lease was gone has returned false
\* and the job is still unlocked.
C12_Witness ==
    \E w \in Workers :
        /\ worker[w].id \in PushIds
        /\ worker[w].renewed = "absent" /\ lease[Key(w)] = 0

\* C13: over any sequence of attempts, a row's completed starts FALSE, never
\* goes back to FALSE, becomes TRUE only by the CompleteDownloadRequest of an
\* attempt that reached end of data and whose last Sync succeeded, and is set
\* at most once (no CompleteDownloadRequest on a row already completed).
C13_CompletedSetOnce ==
    [][/\ \A id \in DOMAIN downloads' :
            IF id \in DOMAIN downloads
            THEN /\ downloads[id].completed => downloads'[id].completed
                 /\ (~downloads[id].completed /\ downloads'[id].completed)
                        => \E w \in Workers :
                            /\ worker[w].pc = "complete" /\ worker[w].id = id
                            /\ worker[w].body = <<>>
                            /\ worker'[w].pc = "return"
            ELSE ~downloads'[id].completed
       /\ \A w \in Workers :
            (worker[w].pc = "complete" /\ worker'[w].pc = "return")
                => ~downloads[worker[w].id].completed]_vars

\* C14: a submission of a link its owner already has a row for creates no
\* second row and pushes nothing: no two rows share (user_id, link), and a
\* submission that got past the database either adds one row that is no
\* duplicate or leaves the rows and the queue as they were.
C14_DuplicateSubmissionChangesNothing ==
    /\ [](\A i, j \in DOMAIN downloads :
            (downloads[i].user_id = downloads[j].user_id
                /\ downloads[i].link = downloads[j].link) => i = j)
    /\ [][serial' # serial =>
            \/ /\ downloads' = downloads /\ queue' = queue /\ enqLog' = enqLog
                /\ \E u \in Users, l \in Links : Duplicate(u, l)
            \/ /\ DOMAIN downloads' = DOMAIN downloads \cup {serial'}
                /\ serial' \notin DOMAIN downloads
                /\ ~Duplicate(downloads'[serial'].user_id, downloads'[serial'].link)
                /\ \A i \in DOMAIN downloads : downloads'[i] = downloads[i]]_vars

\* C14 witness: a duplicate submission has been refused (the id sequence is
\* ahead of the rows) and the queue holds nothing it pushed.
C14_Witness ==
    /\ downloads # <<>>
    /\ serial > Cardinality(DOMAIN downloads)
    /\ \A i \in 1..Len(enqLog) : enqLog[i] \in DOMAIN downloads \cup {UnknownID}

\* w's step is a MarkError or CompleteDownloadRequest that reached the row.
Mutates(w) ==
    /\ worker[w].pc \in {"markerr", "markerr_do", "complete"}
    /\ worker'[w].pc # worker[w].pc
    /\ faults' = faults

\* C15: every MarkError or CompleteDownloadRequest of a worker happens while
\* the lease of the job exists and is the one that worker's attempt acquired,
\* and never while another worker that has mutated the same row is still
\* inside its attempt.
C15_MutationUnderOwnLease ==
    [][\A w \in Workers :
        Mutates(w) =>
            /\ lease[Key(w)] > 0
            /\ w \in holders[Key(w)]
            /\ \A v \in Workers \ {w} :
                ~(Processing(v) /\ worker[v].id = worker[w].id /\ worker[v].mutated)]_vars

\* C16: an attempt whose AcquireLock answers false, or fails, changes nothing:
\* the step leaves Redis, the rows and the files as they were and ends the
\* attempt, which has sent no request, opened and written no file, called
\* neither MarkError nor CompleteDownloadRequest, started no renewal and
\* released nothing.
C16_LostAcquireChangesNothing ==
    /\ [][\A w \in Workers :
            (worker[w].pc = "acquire" /\ worker'[w].acq \in {"contended", "error"})
                => /\ worker'[w].pc = "poll"
                   /\ UNCHANGED <<queue, lease, downloads, file, stale, holders>>]_vars
    /\ [](\A w \in Workers :
            worker[w].acq \in {"contended", "error"}
                => /\ worker[w].pc = "poll" /\ worker[w].result = "failed"
                   /\ ~worker[w].fetched /\ ~worker[w].wrote /\ ~worker[w].mutated
                   /\ worker[w].ticker = 0 /\ ~worker[w].tickC
                   /\ worker[w].renewed = "none")

\* C16 witness: an attempt has come back from a contended AcquireLock while
\* the worker holding the lease is inside its attempt, its lease untouched.
C16_Witness ==
    \E w, v \in Workers :
        /\ w # v /\ worker[w].acq = "contended" /\ worker[w].pc = "poll"
        /\ Processing(v) /\ worker[v].id = worker[w].id
        /\ holders[Key(v)] = {v} /\ lease[Key(v)] > 0

\* C17: with no failure injected (every ExtendLock issued succeeds), the lease
\* of an attempt in progress is present from its AcquireLock to its
\* ReleaseLock, however long the request and the transfer take.
C17_LeaseOutlivesAttempt ==
    \A w \in Workers :
        (Processing(w) /\ faults = MaxFaults /\ Count(deqLog, worker[w].id) = 1)
            => lease[Key(w)] > 0

\* C18: one missed renewal does not let the lease expire: when an ExtendLock
\* of a running attempt has failed while the lease was present, the lease is
\* still present when the ticker fires next.
C18_OneMissedRenewalTolerated ==
    [][\A w \in Workers :
        (/\ Processing(w) /\ worker[w].renewed = "error"
         /\ lease[Key(w)] > 0
         /\ ~worker[w].tickC /\ worker'[w].tickC)
            => lease'[Key(w)] > 0]_vars

\* C19: once an attempt has returned, its renewal goroutine issues no further
\* ExtendLock: no finished attempt has a renewal goroutine left with a tick
\* to act on.
C19_RenewalStopsWithAttempt == stale = {}

\* C20: an attempt (the only one on its id) that left the stream loop by the
\* ctx.Done() branch has its cancellation error recorded in the row, whose
\* completed is unchanged.
C20_CancellationRecorded ==
    \A w \in Workers :
        (/\ Returned(w) /\ worker[w].err = "canceled"
         /\ Count(deqLog, worker[w].id) = 1)
            => /\ downloads[worker[w].id].error = "canceled"
               /\ ~downloads[worker[w].id].completed

C22_WorkersNeverEnqueue ==
    /\ [][queue' # queue =>
            \/ /\ Len(enqLog') = Len(enqLog) + 1
                /\ queue' = LPush(queue, Sprint(enqLog'[Len(enqLog')]))
                /\ worker' = worker
            \/ /\ enqLog' = enqLog
                /\ queue # <<>>
                /\ queue' = SubSeq(queue, 1, Len(queue) - 1)]_vars
    /\ [](\A id \in PushIds :
            Count(Pending, id) + Count(deqLog, id) = Count(enqLog, id))

\* C22 witness: the only attempt on an id has failed, the id is not in the
\* queue and a worker that polled found nothing.
C22_Witness ==
    /\ queue = <<>>
    /\ \E w \in Workers :
        /\ Returned(w) /\ worker[w].result = "failed"
        /\ Count(enqLog, worker[w].id) = 1 /\ Count(deqLog, worker[w].id) = 1
    /\ \E w \in Workers : worker[w].pc = "sleep"

\* C23: every created row is eventually enqueued: when the handler's push
\* failed, the id is pushed again later.
C23_EveryRowEventuallyEnqueued ==
    \A id \in 1..MaxSerial :
        (id \in DOMAIN downloads) ~> (Count(enqLog, id) > 0)

\* C24 as claimed: at every point of an attempt the bytes written since the
\* last successful Sync are under FlushThresholdBytes.
C24_UnflushedUnderThreshold ==
    \A w \in Workers : Processing(w) => worker[w].bytesRead < FlushThresholdBytes

\* C24 as amended: at the start of every iteration of the stream loop the
\* bytes written since the last successful Sync are under FlushThresholdBytes,
\* and anywhere in the attempt under the threshold plus one buffer; the loop
\* is left for CompleteDownloadRequest only by a Sync that succeeded, with
\* nothing unflushed, and completed is set only from there.
C24_FlushAtThreshold ==
    /\ [](\A w \in Workers :
            /\ worker[w].pc = "stream" => worker[w].bytesRead < FlushThresholdBytes
            /\ worker[w].bytesRead < FlushThresholdBytes + DownloadBuffSizeBytes
            /\ worker[w].pc = "complete" => worker[w].bytesRead = 0)
    /\ [][\A w \in Workers :
            (worker[w].pc # "complete" /\ worker'[w].pc = "complete")
                => /\ worker[w].pc = "stream"
                   /\ faults' = faults
                   /\ file' = file]_vars
    /\ [][\A id \in DOMAIN downloads :
            (~downloads[id].completed /\ downloads'[id].completed)
                => \E w \in Workers :
                    /\ worker[w].pc = "complete" /\ worker[w].id = id
                    /\ worker[w].bytesRead = 0]_vars

\* C24 witness: the loop has synced at the threshold and gone on writing.
C24_Witness ==
    \E w \in Workers :
        /\ worker[w].pc = "stream" /\ worker[w].body # <<>>
        /\ Len(file[FileName(w)]) > FlushThresholdBytes
        /\ worker[w].bytesRead > 0
        /\ worker[w].bytesRead < Len(file[FileName(w)])

====
